---- MODULE Spec2Model ----
(***************************************************************************)
(* Clique recursion of the Bayes tree (BayesTreeCliqueBase-inst.h):        *)
(* equals, treeSize, numCachedSeparatorMarginals, separatorMarginal,       *)
(* marginal2 and deleteCachedShortcuts over a tree of cliques, each with   *)
(* an optional cached separator marginal.                                  *)
(*                                                                         *)
(* A factor is a record [kind, id, keys, of]: kind "cond" is the factor    *)
(* form of clique id's conditional, kind "marg" is the result of the       *)
(* elimination capability applied to the factors `of` keeping `keys`, and  *)
(* kind "indet" is an indeterminate value read through a null pointer.     *)
(***************************************************************************)
EXTENDS Integers, Sequences, FiniteSets, TLC

VARIABLES parent, children, conditional, cache, op, pre, halted, threads

vars == <<parent, children, conditional, cache, op, pre, halted, threads>>

(* ------------------------------ bounds --------------------------------- *)
NumCliques == 4
MaxTol == 1
MaxValue == 1
KeyStride == 3
NumThreads == 2

Cliques == 1..NumCliques
NoParent == 0
Tolerances == 0..MaxTol
Values == 0..MaxValue
Threads == 1..NumThreads

(* --------------------------- data model -------------------------------- *)
\* boost::optional<FactorGraph>: absent, or present with a factor collection
\* (which may itself be empty).
NoCache == [present |-> FALSE, factors |-> <<>>]
Cached(fs) == [present |-> TRUE, factors |-> fs]

\* A null conditional_ pointer.
NullConditional == [present |-> FALSE, value |-> 0, frontals |-> <<>>, parents |-> <<>>]

\* The tree shapes the construction process can hand over: one root
\* (clique 1), every other clique hanging below a clique built before it.
TreeShapes ==
  { p \in [Cliques -> 0..NumCliques] :
      /\ p[1] = NoParent
      /\ \A c \in Cliques \ {1} : p[c] \in 1..(c - 1) }

RECURSIVE SortedSeq(_)
SortedSeq(S) ==
  IF S = {} THEN <<>>
  ELSE LET m == CHOOSE x \in S : \A y \in S : x <= y
       IN  <<m>> \o SortedSeq(S \ {m})

\* children: owned, insertion-ordered list of the cliques whose parent_ is c.
ChildList(p, c) == SortedSeq({ d \in Cliques : p[d] = c })

\* The keys of the conditionals: one frontal key per clique, and as separator
\* the parent's frontal key followed by the parent's separator (so that every
\* separator lies within the parent's frontal and separator keys).
FrontalOf(c) == <<KeyStride * c>>

RECURSIVE SeparatorOf(_, _)
SeparatorOf(p, c) ==
  IF p[c] = NoParent THEN <<>>
  ELSE FrontalOf(p[c]) \o SeparatorOf(p, p[c])

ConditionalOf(p, c, v) ==
  [present |-> TRUE, value |-> v, frontals |-> FrontalOf(c), parents |-> SeparatorOf(p, c)]

\* conditional()->beginParents() .. endParents()
separatorKeys(c) == conditional[c].parents
frontalKeys(c) == conditional[c].frontals

Range(s) == { s[i] : i \in DOMAIN s }

RECURSIVE Ancestors(_)
Ancestors(c) ==
  IF parent[c] = NoParent THEN {} ELSE {parent[c]} \cup Ancestors(parent[c])

TreeRoot == CHOOSE c \in Cliques : parent[c] = NoParent

(* ------------------- collaborators (factor algebra) -------------------- *)
\* conditional()->toFactor(): a fresh factor over frontals then parents.
toFactor(c) ==
  [kind |-> "cond", id |-> c,
   keys |-> conditional[c].frontals \o conditional[c].parents, of |-> <<>>]

\* FactorGraph::keys(): the set of all keys of the factors.
keysOf(fs) == UNION { Range(fs[i].keys) : i \in DOMAIN fs }

\* internal::createReducingPermutation: p[newJ] = oldJ, the old keys in
\* increasing order (position i of the sequence is new index i-1).
createReducingPermutation(ks) == SortedSeq(ks)

\* internal::Reduction::CreateAsInverse: the map old key -> new index.
CreateAsInverse(p) ==
  [k \in Range(p) |-> (CHOOSE i \in DOMAIN p : p[i] = k) - 1]

\* Factor::reduceWithInverse: every key replaced by its new index.
reduceWithInverse(f, inv) ==
  [f EXCEPT !.keys = [i \in DOMAIN f.keys |-> inv[f.keys[i]]]]

\* Reduction::applyInverse on a key vector.
applyInverse(inv, js) == [i \in DOMAIN js |-> inv[js[i]]]

\* Factor::permuteWithInverse: every new index replaced by the old key.
permuteWithInverse(f, p) ==
  [f EXCEPT !.keys = [i \in DOMAIN f.keys |-> p[f.keys[i] + 1]]]

MapSeq(fs, F(_)) == [i \in DOMAIN fs |-> F(fs[i])]

\* GenericSequentialSolver(p_Cp).jointBayesNet(indicesS, function): the joint
\* on the kept variables, in the order given, as a function of the factors.
jointBayesNet(fs, js) ==
  << [kind |-> "marg", id |-> 0, keys |-> js, of |-> fs] >>

\* What a read through a null pointer may yield when the process goes on.
Indeterminate == << [kind |-> "indet", id |-> 0, keys |-> <<>>, of |-> <<>>] >>

(* ------------------------------ treeSize ------------------------------- *)
RECURSIVE treeSize(_)
RECURSIVE SumTreeSize(_)
SumTreeSize(cs) ==
  IF cs = <<>> THEN 0 ELSE treeSize(Head(cs)) + SumTreeSize(Tail(cs))

\* size starts at 0 instead of 1.
treeSize_ZeroStart(c) == SumTreeSize(children[c])

treeSize(c) == 1 + SumTreeSize(children[c])

(* -------------------- numCachedSeparatorMarginals ---------------------- *)
RECURSIVE numCachedSeparatorMarginals(_, _)
RECURSIVE SumNumCached(_, _)
SumNumCached(cs, cch) ==
  IF cs = <<>> THEN 0
  ELSE numCachedSeparatorMarginals(Head(cs), cch) + SumNumCached(Tail(cs), cch)

\* A full-tree count: the early return on an absent cache is missing.
numCachedSeparatorMarginals_NoEarlyReturn(c, cch) ==
  (IF cch[c].present THEN 1 ELSE 0) + SumNumCached(children[c], cch)

\* A cached empty collection is taken for an absent cache.
numCachedSeparatorMarginals_EmptyIsAbsent(c, cch) ==
  IF ~cch[c].present \/ cch[c].factors = <<>> THEN 0
  ELSE 1 + SumNumCached(children[c], cch)

numCachedSeparatorMarginals(c, cch) ==
  IF ~cch[c].present THEN 0
  ELSE 1 + SumNumCached(children[c], cch)

(* ------------------------ deleteCachedShortcuts ------------------------ *)
RECURSIVE deleteCachedShortcuts(_, _)
RECURSIVE DeleteInChildren(_, _)
DeleteInChildren(cs, cch) ==
  IF cs = <<>> THEN cch
  ELSE DeleteInChildren(Tail(cs), deleteCachedShortcuts(Head(cs), cch))

\* A set cache at this clique clears the cache of every clique of the tree.
deleteCachedShortcuts_ClearsAll(c, cch) ==
  IF cch[c].present THEN [d \in Cliques |-> NoCache] ELSE cch

\* The children are visited whether or not this clique's cache is set.
deleteCachedShortcuts_AlwaysRecurse(c, cch) ==
  [DeleteInChildren(children[c], cch) EXCEPT ![c] = NoCache]

deleteCachedShortcuts(c, cch) ==
  IF cch[c].present
  THEN [DeleteInChildren(children[c], cch) EXCEPT ![c] = NoCache]
  ELSE cch

(* -------------------------- separatorMarginal -------------------------- *)
\* separatorMarginal (and marginal2) stand in the source file as commented-out
\* code, lines 157-230; they are modelled as written there.
\* What a call yields: st is "ok" (a value was returned), "error" (the
\* elimination capability threw and nothing caught it) or "terminated" (the
\* process ended inside the call); cache is the cache of every clique when
\* the call ends; elims counts the calls of the elimination capability and
\* calls the nested separatorMarginal calls.
Outcome(st, val, cch, elims, calls) ==
  [st |-> st, val |-> val, cache |-> cch, elims |-> elims, calls |-> calls]

\* The outcomes of a call through a null pointer.
UBOutcomes == {"terminated", "indeterminate"}

\* p_Cp(parent->separatorMarginal(R)); p_Cp.push_back(parent->conditional()->toFactor())
\* The copy shares the parent's cached factor objects; the last one is fresh.
JoinParent(c, parentVal) == Append(parentVal, toFactor(parent[c]))

\* Reduce the variable indices to start at zero.
Reduce(p_Cp) ==
  LET reduction == createReducingPermutation(keysOf(p_Cp))
      inverseReduction == CreateAsInverse(reduction)
  IN  MapSeq(p_Cp, LAMBDA f : reduceWithInverse(f, inverseReduction))

\* indicesS(p_F_S->beginParents(), endParents()); inverseReduction.applyInverse(indicesS)
ReducedSeparator(c, p_Cp) ==
  applyInverse(CreateAsInverse(createReducingPermutation(keysOf(p_Cp))), separatorKeys(c))

\* The undo loops are missing: the factors keep their reduced indices.
UndoReduce_NotUndone(fs, p_Cp) == fs

\* Undo the reduction on a collection of factors.
UndoReduce(fs, p_Cp) ==
  LET reduction == createReducingPermutation(keysOf(p_Cp))
  IN  MapSeq(fs, LAMBDA f : permuteWithInverse(f, reduction))

\* The cache-miss body once the parent's separator marginal is at hand:
\* join, reduce in place, eliminate onto S, store, undo the reduction.
\* An elimination that throws leaves the function before the store and
\* before the undo loops.
Marginalize(c, pr, bad) ==
  LET p == parent[c]
      p_Cp == JoinParent(c, pr.val)
      reduced == Reduce(p_Cp)
      shared == SubSeq(reduced, 1, Len(pr.val))
      indicesS == ReducedSeparator(c, p_Cp)
  IN  IF c = bad
      THEN Outcome("error", <<>>, [pr.cache EXCEPT ![p] = Cached(shared)],
                   pr.elims + 1, pr.calls + 1)
      ELSE LET result == UndoReduce(jointBayesNet(reduced, indicesS), p_Cp)
           IN  Outcome("ok", result,
                       [pr.cache EXCEPT ![p] = Cached(UndoReduce(shared, p_Cp)),
                                        ![c] = Cached(result)],
                       pr.elims + 1, pr.calls + 1)

\* parent_.lock() is null and the clique is not R: parent->separatorMarginal
\* is a call through a null pointer.
NullParentCall(c, cch, ub) ==
  IF ub = "terminated"
  THEN Outcome("terminated", <<>>, cch, 0, 1)
  ELSE Outcome("ok", Indeterminate, [cch EXCEPT ![c] = Cached(Indeterminate)], 0, 1)

\* The root case of a cache miss: cachedSeparatorMarginal_ = empty.
RootCase(c, cch) ==
  Outcome("ok", <<>>, [cch EXCEPT ![c] = Cached(<<>>)], 0, 1)

\* The hit branch returns a default-constructed graph, not the cached one.
CacheHit_ReturnsEmpty(c, cch) == Outcome("ok", <<>>, cch, 0, 1)

\* The cache hit: return *cachedSeparatorMarginal_.
CacheHit(c, cch) == Outcome("ok", cch[c].factors, cch, 0, 1)

RECURSIVE separatorMarginal(_, _, _, _, _)
separatorMarginal(c, R, cch, bad, ub) ==
  IF cch[c].present THEN CacheHit(c, cch)
  ELSE IF R = c THEN RootCase(c, cch)
  ELSE IF parent[c] = NoParent THEN NullParentCall(c, cch, ub)
  ELSE LET pr == separatorMarginal(parent[c], R, cch, bad, ub)
       IN  IF pr.st # "ok"
           THEN [pr EXCEPT !.calls = @ + 1]
           ELSE Marginalize(c, pr, bad)

(* ------------------------------ marginal2 ------------------------------ *)
\* p_C aliases the cache instead of copying it: the conditional is pushed
\* into cachedSeparatorMarginal_.
marginal2_PushesIntoCache(c, R, cch, bad, ub) ==
  LET sm == separatorMarginal(c, R, cch, bad, ub)
  IN  IF sm.st # "ok" THEN sm
      ELSE [sm EXCEPT !.val = Append(sm.val, toFactor(c)),
                      !.cache[c] = Cached(Append(sm.val, toFactor(c)))]

\* p_C(this->separatorMarginal(R)); p_C.push_back(this->conditional()->toFactor())
\* p_C is a copy of the graph: the push_back does not reach the cache.
marginal2(c, R, cch, bad, ub) ==
  LET sm == separatorMarginal(c, R, cch, bad, ub)
  IN  IF sm.st # "ok" THEN sm
      ELSE [sm EXCEPT !.val = Append(sm.val, toFactor(c))]

(* -------------------------------- equals ------------------------------- *)
\* Conditional::equals(other, tol): same keys, parameters within tol.
conditionalEquals(a, b, tol) ==
  /\ a.frontals = b.frontals
  /\ a.parents = b.parents
  /\ a.value - b.value <= tol
  /\ b.value - a.value <= tol

\* (!conditional_ && !other.conditional()) || conditional_->equals(*other.conditional(), tol)
\* The second operand dereferences both pointers.
equals(c, other, tol, ub, any) ==
  IF ~conditional[c].present /\ ~other.conditional.present
  THEN [st |-> "ok", flag |-> TRUE]
  ELSE IF ~conditional[c].present \/ ~other.conditional.present
  THEN IF ub = "terminated"
       THEN [st |-> "terminated", flag |-> FALSE]
       ELSE [st |-> "ok", flag |-> any]
  ELSE [st |-> "ok", flag |-> conditionalEquals(conditional[c], other.conditional, tol)]

\* The cliques equals may be handed: any conditional (or none), any parent
\* reference, any cache.
OtherConditionals ==
  {NullConditional} \cup
  { ConditionalOf(parent, d, v) : d \in Cliques, v \in Values }

Others ==
  [conditional : OtherConditionals, parent : {NoParent}, cache : {NoCache}]
    \cup [conditional : OtherConditionals, parent : {NumCliques}, cache : {Cached(<<>>)}]

(* ------------------------------ the machine ---------------------------- *)
OpRec(name, c, r, other, tol, bad, st, val, num, flag, elims, calls) ==
  [name |-> name, c |-> c, r |-> r, other |-> other, tol |-> tol, bad |-> bad,
   st |-> st, val |-> val, num |-> num, flag |-> flag, elims |-> elims,
   calls |-> calls]

\* A thread inside no call. pval is the parent's separator marginal as the
\* thread read it.
IdleThread == [pc |-> "idle", c |-> 0, R |-> 0, pval |-> <<>>]

NoOp == OpRec("none", 0, 0, NullConditional, 0, 0, "ok", <<>>, 0, FALSE, 0, 0)

DefaultValue(c) == c % (MaxValue + 1)

InitTree ==
  /\ parent \in TreeShapes
  /\ children = [c \in Cliques |-> ChildList(parent, c)]
  /\ op = NoOp
  /\ halted = FALSE
  /\ threads = [t \in Threads |-> IdleThread]

Init ==
  /\ InitTree
  /\ conditional = [c \in Cliques |-> ConditionalOf(parent, c, DefaultValue(c))]
  /\ cache = [c \in Cliques |-> NoCache]
  /\ pre = cache

Frame == UNCHANGED <<parent, children, conditional, threads>>

\* A separator-marginal request (c, R); bad names the clique whose
\* elimination throws (NoParent: none does).
Request(c, R, bad, ub) ==
  /\ ~halted
  /\ LET out == separatorMarginal(c, R, cache, bad, ub)
     IN  /\ cache' = out.cache
         /\ op' = OpRec("separatorMarginal", c, R, NullConditional, 0, bad,
                        out.st, out.val, 0, FALSE, out.elims, out.calls)
         /\ halted' = (out.st = "terminated")
  /\ pre' = cache
  /\ Frame

\* marginal2(c, R), with the same inputs as a request.
Marginal2(c, R, bad, ub) ==
  /\ ~halted
  /\ LET out == marginal2(c, R, cache, bad, ub)
     IN  /\ cache' = out.cache
         /\ op' = OpRec("marginal2", c, R, NullConditional, 0, bad,
                        out.st, out.val, 0, FALSE, out.elims, out.calls)
         /\ halted' = (out.st = "terminated")
  /\ pre' = cache
  /\ Frame

DeleteCachedShortcuts(c) ==
  /\ ~halted
  /\ cache' = deleteCachedShortcuts(c, cache)
  /\ op' = OpRec("deleteCachedShortcuts", c, 0, NullConditional, 0, 0,
                 "ok", <<>>, 0, FALSE, 0, 0)
  /\ pre' = cache
  /\ UNCHANGED halted
  /\ Frame

TreeSize(c) ==
  /\ ~halted
  /\ op' = OpRec("treeSize", c, 0, NullConditional, 0, 0,
                 "ok", <<>>, treeSize(c), FALSE, 0, 0)
  /\ pre' = cache
  /\ UNCHANGED <<cache, halted>>
  /\ Frame

NumCachedSeparatorMarginals(c) ==
  /\ ~halted
  /\ op' = OpRec("numCachedSeparatorMarginals", c, 0, NullConditional, 0, 0,
                 "ok", <<>>, numCachedSeparatorMarginals(c, cache), FALSE, 0, 0)
  /\ pre' = cache
  /\ UNCHANGED <<cache, halted>>
  /\ Frame

Equals(c, other, tol, ub, any) ==
  /\ ~halted
  /\ LET out == equals(c, other, tol, ub, any)
     IN  /\ op' = OpRec("equals", c, 0, other.conditional, tol, 0,
                        out.st, <<>>, 0, out.flag, 0, 0)
         /\ halted' = (out.st = "terminated")
  /\ pre' = cache
  /\ UNCHANGED cache
  /\ Frame

\* Requests whose reference clique is the target or one of its ancestors,
\* with an elimination capability that succeeds.
Next ==
  \/ \E c \in Cliques : \E R \in {c} \cup Ancestors(c) :
       Request(c, R, NoParent, "terminated")
  \/ \E c \in Cliques : \E R \in {c} \cup Ancestors(c) :
       Marginal2(c, R, NoParent, "terminated")
  \/ \E c \in Cliques : DeleteCachedShortcuts(c)
  \/ \E c \in Cliques : TreeSize(c)
  \/ \E c \in Cliques : NumCachedSeparatorMarginals(c)

Spec == Init /\ [][Next]_vars

(* ---------------------- arbitrary cache assignments -------------------- *)
\* Some non-empty factor collection a cache may hold.
AnyMarginal == << [kind |-> "marg", id |-> 0, keys |-> <<>>, of |-> <<>>] >>

InitAny ==
  /\ InitTree
  /\ conditional = [c \in Cliques |-> ConditionalOf(parent, c, DefaultValue(c))]
  /\ cache \in [Cliques -> {NoCache, Cached(<<>>), Cached(AnyMarginal)}]
  /\ pre = cache

NextAny ==
  \/ \E c \in Cliques : TreeSize(c)
  \/ \E c \in Cliques : NumCachedSeparatorMarginals(c)
  \/ \E c \in Cliques : DeleteCachedShortcuts(c)

SpecAny == InitAny /\ [][NextAny]_vars

(* ------------------ requests relative to the tree root ---------------- *)
\* Every request names the tree root as its reference clique, as
\* BayesTree does.
NextRoot ==
  \/ \E c \in Cliques : Request(c, TreeRoot, NoParent, "terminated")
  \/ \E c \in Cliques : DeleteCachedShortcuts(c)
  \/ \E c \in Cliques : TreeSize(c)
  \/ \E c \in Cliques : NumCachedSeparatorMarginals(c)

SpecRoot == Init /\ [][NextRoot]_vars

(* --------------------- requests with any reference -------------------- *)
\* The reference clique need not be an ancestor of the target: the recursion
\* then arrives, on cache misses, at the tree root, whose parent_ is null.
NextMalformed ==
  \/ \E c \in Cliques, R \in Cliques, ub \in UBOutcomes :
       Request(c, R, NoParent, ub)
  \/ \E c \in Cliques : DeleteCachedShortcuts(c)
  \/ \E c \in Cliques : TreeSize(c)
  \/ \E c \in Cliques : NumCachedSeparatorMarginals(c)

SpecMalformed == Init /\ [][NextMalformed]_vars

(* ------------------- an elimination capability that fails ------------- *)
\* The elimination for clique bad throws (bad = NoParent: none does).
NextFail ==
  \/ \E c \in Cliques : \E R \in {c} \cup Ancestors(c) :
       \E bad \in Cliques \cup {NoParent} :
         Request(c, R, bad, "terminated")
  \/ \E c \in Cliques : \E R \in {c} \cup Ancestors(c) :
       \E bad \in Cliques \cup {NoParent} :
         Marginal2(c, R, bad, "terminated")
  \/ \E c \in Cliques : DeleteCachedShortcuts(c)

SpecFail == Init /\ [][NextFail]_vars

(* -------------------------- every operation --------------------------- *)
\* Any sequence of the six operations, with an elimination capability that
\* may fail.
NextAll ==
  \/ \E c \in Cliques : \E R \in {c} \cup Ancestors(c) :
       \E bad \in Cliques \cup {NoParent} :
         Request(c, R, bad, "terminated")
  \/ \E c \in Cliques : \E R \in {c} \cup Ancestors(c) :
       Marginal2(c, R, NoParent, "terminated")
  \/ \E c \in Cliques : DeleteCachedShortcuts(c)
  \/ \E c \in Cliques : TreeSize(c)
  \/ \E c \in Cliques : NumCachedSeparatorMarginals(c)
  \/ \E c \in Cliques, tol \in Tolerances :
       \E other \in { o \in Others : o.parent = NoParent } :
         Equals(c, other, tol, "terminated", FALSE)

SpecAll == Init /\ [][NextAll]_vars

(* ------------------ requests from several threads -------------------- *)
\* separatorMarginal takes no lock: the steps of calls running in different
\* threads interleave at its reads and writes of cachedSeparatorMarginal_.
\* The requests are those for a child of the tree root relative to the
\* root, whose p_Cp holds only the fresh factor of the root's conditional.
Structure == UNCHANGED <<parent, children, conditional>>

Goto(t, pc) == threads' = [threads EXCEPT ![t].pc = pc]

\* A thread calls separatorMarginal(R) on clique c.
Start(t, c) ==
  /\ ~halted /\ threads[t].pc = "idle"
  /\ parent[c] = TreeRoot
  /\ threads' = [threads EXCEPT ![t] = [pc |-> "check", c |-> c, R |-> TreeRoot, pval |-> <<>>]]
  /\ UNCHANGED <<cache, op, pre, halted>> /\ Structure

\* if (!cachedSeparatorMarginal_) on the target (R.get() == this is false).
Check(t) ==
  /\ ~halted /\ threads[t].pc = "check"
  /\ Goto(t, IF cache[threads[t].c].present THEN "return" ELSE "parentCheck")
  /\ UNCHANGED <<cache, op, pre, halted>> /\ Structure

\* The nested call on the parent, which is R: the same test there.
ParentCheck(t) ==
  /\ ~halted /\ threads[t].pc = "parentCheck"
  /\ Goto(t, IF cache[threads[t].R].present THEN "parentReturn" ELSE "parentStore")
  /\ UNCHANGED <<cache, op, pre, halted>> /\ Structure

\* cachedSeparatorMarginal_ = empty in the parent.
ParentStore(t) ==
  /\ ~halted /\ threads[t].pc = "parentStore"
  /\ cache' = [cache EXCEPT ![threads[t].R] = Cached(<<>>)]
  /\ Goto(t, "parentReturn")
  /\ UNCHANGED <<op, pre, halted>> /\ Structure

\* return *cachedSeparatorMarginal_ in the parent; p_Cp is built and reduced,
\* and the elimination capability is entered.
ParentReturn(t) ==
  /\ ~halted /\ threads[t].pc = "parentReturn"
  /\ threads' = [threads EXCEPT ![t].pc = "eliminating",
                                ![t].pval = cache[threads[t].R].factors]
  /\ UNCHANGED <<cache, op, pre, halted>> /\ Structure

\* cachedSeparatorMarginal_ = *(solver.jointBayesNet(indicesS, function)):
\* the elimination ends and its result, in reduced indices, is stored.
Store(t) ==
  /\ ~halted /\ threads[t].pc = "eliminating"
  /\ LET c == threads[t].c
         p_Cp == JoinParent(c, threads[t].pval)
     IN  cache' = [cache EXCEPT ![c] =
                     Cached(jointBayesNet(Reduce(p_Cp), ReducedSeparator(c, p_Cp)))]
  /\ Goto(t, "undo")
  /\ UNCHANGED <<op, pre, halted>> /\ Structure

\* The index reduction[j] is read for every key j of the factors.
InRange(fs, reduction) ==
  \A i \in DOMAIN fs : \A k \in Range(fs[i].keys) : k + 1 \in DOMAIN reduction

\* Undo the reduction: permuteWithInverse on the factors that
\* *cachedSeparatorMarginal_ holds now. An index outside the permutation is
\* a read past its end.
Undo(t, ub) ==
  /\ ~halted /\ threads[t].pc = "undo"
  /\ LET c == threads[t].c
         p_Cp == JoinParent(c, threads[t].pval)
         reduction == createReducingPermutation(keysOf(p_Cp))
     IN  IF InRange(cache[c].factors, reduction)
         THEN /\ cache' = [cache EXCEPT ![c] = Cached(UndoReduce(cache[c].factors, p_Cp))]
              /\ Goto(t, "return")
              /\ UNCHANGED halted
         ELSE IF ub = "terminated"
         THEN /\ halted' = TRUE
              /\ Goto(t, "terminated")
              /\ UNCHANGED cache
         ELSE /\ cache' = [cache EXCEPT ![c] = Cached(Indeterminate)]
              /\ Goto(t, "return")
              /\ UNCHANGED halted
  /\ UNCHANGED <<op, pre>> /\ Structure

\* return *cachedSeparatorMarginal_ on the target.
Return(t) ==
  /\ ~halted /\ threads[t].pc = "return"
  /\ op' = OpRec("separatorMarginal", threads[t].c, threads[t].R, NullConditional,
                 0, 0, "ok", cache[threads[t].c].factors, 0, FALSE, 0, 0)
  /\ pre' = cache
  /\ threads' = [threads EXCEPT ![t] = IdleThread]
  /\ UNCHANGED <<cache, halted>> /\ Structure

NextConc ==
  \/ \E t \in Threads, c \in Cliques : Start(t, c)
  \/ \E t \in Threads : Check(t)
  \/ \E t \in Threads : ParentCheck(t)
  \/ \E t \in Threads : ParentStore(t)
  \/ \E t \in Threads : ParentReturn(t)
  \/ \E t \in Threads : Store(t)
  \/ \E t \in Threads, ub \in UBOutcomes : Undo(t, ub)
  \/ \E t \in Threads : Return(t)

SpecConc == Init /\ [][NextConc]_vars

(* ------------------------- equality of cliques ------------------------ *)
\* Cliques as they are during construction: a clique may still lack its
\* conditional.
InitEq ==
  /\ InitTree
  /\ conditional \in [Cliques -> {NullConditional} \cup
                        { ConditionalOf(parent, d, DefaultValue(d)) : d \in Cliques }]
  /\ \A c \in Cliques :
       conditional[c].present =>
         conditional[c] = ConditionalOf(parent, c, DefaultValue(c))
  /\ cache \in {[c \in Cliques |-> NoCache], [c \in Cliques |-> Cached(<<>>)]}
  /\ pre = cache

NextEq ==
  \E c \in Cliques, other \in Others, tol \in Tolerances :
    \E ub \in UBOutcomes :
      \E any \in (IF ub = "terminated" THEN {FALSE} ELSE BOOLEAN) :
        Equals(c, other, tol, ub, any)

SpecEq == InitEq /\ [][NextEq]_vars

(* ------------------------------- claims -------------------------------- *)
IsRequest == op.name = "separatorMarginal"

\* The cliques of the subtree rooted at c, by the parent references.
SubtreeOf(c) == { d \in Cliques : d = c \/ c \in Ancestors(d) }

\* The parent chain from c up to but excluding r.
PathExcluding(c, r) == ({c} \cup Ancestors(c)) \ ({r} \cup Ancestors(r))

RECURSIVE SumSubtreeSizes(_)
SumSubtreeSizes(S) ==
  IF S = {} THEN 0
  ELSE LET x == CHOOSE y \in S : TRUE
       IN  Cardinality(SubtreeOf(x)) + SumSubtreeSizes(S \ {x})

\* C1: immediately after deleteCachedShortcuts(C), numCachedSeparatorMarginals(C)
\* is 0 and every clique of the subtree rooted at C has an absent cache.
C1_DeleteClearsSubtree ==
  op.name = "deleteCachedShortcuts" =>
    /\ numCachedSeparatorMarginals(op.c, cache) = 0
    /\ \A d \in SubtreeOf(op.c) : ~cache[d].present

\* C2: after a successful request (L, R) with R a proper ancestor of L, every
\* clique on the parent chain from L up to but excluding R has a present cache.
C2_PathPopulated ==
  (IsRequest /\ op.st = "ok" /\ op.r \in Ancestors(op.c)) =>
    \A d \in PathExcluding(op.c, op.r) : cache[d].present

\* A request relative to the tree root for a clique at depth two or more,
\* none of whose path was cached.
C2_Witness ==
  /\ IsRequest /\ op.st = "ok" /\ op.r \in Ancestors(op.c)
  /\ Cardinality(PathExcluding(op.c, op.r)) >= 2
  /\ \A d \in PathExcluding(op.c, op.r) : ~pre[d].present

\* C3: a request for a clique whose cache is present returns the cached value,
\* calls the elimination capability zero times and changes no cache; and the
\* value a successful request returns is the one it leaves in the clique's
\* cache, so the same request repeated returns an equal value with no
\* elimination.
C3_HitStep ==
  (op'.name = "separatorMarginal" /\ op.name = "separatorMarginal"
     /\ op.st = "ok" /\ op'.c = op.c /\ op'.r = op.r) =>
    (op'.st = "ok" /\ op'.val = op.val /\ op'.elims = 0 /\ cache' = cache)

C3_HitState ==
  /\ (IsRequest /\ pre[op.c].present) =>
       /\ op.st = "ok"
       /\ op.val = pre[op.c].factors
       /\ op.elims = 0
       /\ cache = pre
  /\ (IsRequest /\ op.st = "ok") =>
       (cache[op.c].present /\ op.val = cache[op.c].factors)

C3_CacheHit == [](C3_HitState) /\ [][C3_HitStep]_vars

\* A hit on a non-empty cached marginal.
C3_Witness ==
  IsRequest /\ pre[op.c].present /\ pre[op.c].factors # <<>>

\* C4: the request (R, R) returns the empty factor collection and calls the
\* elimination capability zero times, in every reachable cache state.
C4_RootTrivial ==
  (IsRequest /\ op.c = op.r) => (op.st = "ok" /\ op.val = <<>> /\ op.elims = 0)

\* The cache-free recursion: empty at R, otherwise the marginalization onto
\* the separator of the parent's result joined with the parent's conditional.
RECURSIVE Uncached(_, _)
Uncached(c, R) ==
  IF c = R THEN <<>>
  ELSE LET p_Cp == JoinParent(c, Uncached(parent[c], R))
       IN  UndoReduce(jointBayesNet(Reduce(p_Cp), ReducedSeparator(c, p_Cp)), p_Cp)

\* C5: the value a request (C, R) returns equals the cache-free recursion
\* for (C, R).
C5_MemoEqualsUncached ==
  (IsRequest /\ op.st = "ok") => op.val = Uncached(op.c, op.r)

\* C6: treeSize(C) is the number of cliques in the subtree rooted at C, one
\* plus the sizes of the children's subtrees, and the call changes nothing.
C6_Result ==
  op.name = "treeSize" =>
    /\ op.num = Cardinality(SubtreeOf(op.c))
    /\ op.num = 1 + SumSubtreeSizes(Range(children[op.c]))
    /\ (children[op.c] = <<>> => op.num = 1)
    /\ cache = pre

C6_Frame ==
  op'.name = "treeSize" => UNCHANGED <<parent, children, conditional, cache>>

C6_TreeSize == [](C6_Result) /\ [][C6_Frame]_vars

\* treeSize at a clique with two or more children, one of which has a child.
C6_Witness ==
  /\ op.name = "treeSize"
  /\ Len(children[op.c]) >= 2
  /\ op.num >= 4
  /\ \E d \in Cliques : pre[d].present

\* The cliques reached from c through present caches only.
Connected(c, cch) ==
  { d \in SubtreeOf(c) : \A e \in PathExcluding(d, c) \cup {c} : cch[e].present }

RECURSIVE SumConnected(_, _)
SumConnected(S, cch) ==
  IF S = {} THEN 0
  ELSE LET x == CHOOSE y \in S : TRUE
       IN  Cardinality(Connected(x, cch)) + SumConnected(S \ {x}, cch)

\* C7: numCachedSeparatorMarginals(C) is 0 when C's cache is absent, whatever
\* the descendants hold, and otherwise 1 plus the sum over the children.
C7_NumCached ==
  op.name = "numCachedSeparatorMarginals" =>
    IF ~pre[op.c].present
    THEN op.num = 0
    ELSE op.num = 1 + SumConnected(Range(children[op.c]), pre)

\* A count of 0 at a clique whose cache is absent while a descendant's is
\* present.
C7_Witness ==
  /\ op.name = "numCachedSeparatorMarginals"
  /\ ~pre[op.c].present
  /\ op.num = 0
  /\ \E d \in SubtreeOf(op.c) : pre[d].present

\* The request (c, R) arrives, on cache misses all the way, at the tree
\* root, which is not R.
ReachesNullParent(c, R, cch) ==
  /\ R \notin {c} \cup Ancestors(c)
  /\ \A d \in {c} \cup Ancestors(c) : ~cch[d].present

RootOf(c) == CHOOSE d \in {c} \cup Ancestors(c) : parent[d] = NoParent

\* C8: a request that reaches, on a cache miss, a clique that is not R and
\* has no parent ends in a reported error, returns no result and does not
\* write that clique's cache.
C8_MalformedTreeError ==
  (IsRequest /\ ReachesNullParent(op.c, op.r, pre)) =>
    (op.st = "error" /\ ~cache[RootOf(op.c)].present)

\* The elimination for clique bad is called in the request (c, R).
EliminationCalledFor(bad, c, R, cch) ==
  /\ bad \in PathExcluding(c, R)
  /\ \A d \in PathExcluding(c, parent[bad]) : ~cch[d].present

\* C9: when the elimination for a clique fails, the request ends in that
\* failure, the clique's cache is absent afterwards, and every cache that was
\* present before the request holds the value it held before.
C9_NoPartialCache ==
  (IsRequest /\ EliminationCalledFor(op.bad, op.c, op.r, pre)) =>
    /\ op.st = "error"
    /\ ~cache[op.bad].present
    /\ \A d \in Cliques : pre[d].present => cache[d] = pre[d]

\* C10: equals returns true exactly when both cliques lack a conditional or
\* both have conditionals equal within tol; false, without faulting, when
\* exactly one lacks a conditional.
C10_Equals ==
  op.name = "equals" =>
    /\ op.st = "ok"
    /\ op.flag =
         ( \/ (~conditional[op.c].present /\ ~op.other.present)
           \/ /\ conditional[op.c].present
              /\ op.other.present
              /\ conditionalEquals(conditional[op.c], op.other, op.tol) )

\* C11: marginal2(C, R) returns the separator marginal with C's conditional
\* appended and caches nothing of its own: C's cache holds the separator
\* marginal alone, a repeated marginal2(C, R) returns an equal value, and a
\* later request for C returns the collection without C's conditional.
C11_Result ==
  (op.name = "marginal2" /\ op.st = "ok") =>
    /\ cache[op.c].present
    /\ op.val = Append(cache[op.c].factors, toFactor(op.c))
    /\ \A i \in DOMAIN cache[op.c].factors : cache[op.c].factors[i] # toFactor(op.c)
    /\ (pre[op.c].present => cache = pre)

C11_Step ==
  (op.name = "marginal2" /\ op.st = "ok" /\ op'.c = op.c) =>
    /\ (op'.name = "marginal2" /\ op'.r = op.r) =>
         (op'.st = "ok" /\ op'.val = op.val /\ cache' = cache)
    /\ op'.name = "separatorMarginal" =>
         (op'.st = "ok" /\ Append(op'.val, toFactor(op.c)) = op.val)

C11_Marginal2 == [](C11_Result) /\ [][C11_Step]_vars

\* marginal2 on a clique below the reference clique whose cache was absent.
C11_Witness ==
  /\ op.name = "marginal2" /\ op.st = "ok"
  /\ op.r \in Ancestors(op.c)
  /\ ~pre[op.c].present
  /\ Len(op.val) = 2

\* C12: with requests from several threads interleaved at the cache reads
\* and writes, at most one elimination per clique is in flight at a time and
\* every requester returns the value a sequential execution returns.
C12_SingleFlight ==
  /\ \A t, u \in Threads :
       (t # u /\ threads[t].pc = "eliminating" /\ threads[u].pc = "eliminating")
         => threads[t].c # threads[u].c
  /\ (IsRequest /\ op.st = "ok") => op.val = Uncached(op.c, op.r)
  /\ ~halted

\* C13: whenever a clique has a present cache, every clique above it on the
\* parent chain toward the tree root has a present cache too.
C13_AncestorClosure ==
  \A c \in Cliques :
    cache[c].present => \A a \in Ancestors(c) : cache[a].present

IsDelete == op.name = "deleteCachedShortcuts"

\* C14: a present cache keeps its value until deleteCachedShortcuts clears
\* it; no other operation changes or clears it (so it is written once per
\* epoch).
C14_WriteOnce ==
  \A c \in Cliques :
    (pre[c].present /\ cache[c] # pre[c]) => (IsDelete /\ ~cache[c].present)

\* C15: every present cache holds factors over the clique's separator keys
\* only, none of its frontal keys, the kept variables in the order of
\* separatorKeys.
C15_SeparatorOnly ==
  \A c \in Cliques :
    cache[c].present =>
      \A i \in DOMAIN cache[c].factors :
        /\ Range(cache[c].factors[i].keys) \subseteq Range(separatorKeys(c))
        /\ Range(cache[c].factors[i].keys) \cap Range(frontalKeys(c)) = {}
        /\ cache[c].factors[i].keys = separatorKeys(c)

C16_Result == (IsDelete /\ ~pre[op.c].present) => cache = pre

C16_Step ==
  (op'.name = "deleteCachedShortcuts" /\ ~cache[op'.c].present) =>
    UNCHANGED <<cache, parent, children, conditional>>

\* C16: deleteCachedShortcuts(C) on a clique whose cache is absent changes
\* nothing: no clique's cache, descendants with present caches included, and
\* no structure.
C16_DeleteOnAbsent == [](C16_Result) /\ [][C16_Step]_vars

\* deleteCachedShortcuts on an absent cache above a descendant whose cache is
\* present, and still present afterwards.
C16_Witness ==
  /\ IsDelete
  /\ ~pre[op.c].present
  /\ \E d \in SubtreeOf(op.c) : pre[d].present /\ cache[d].present

CachedEmpty(c) == pre[c] = Cached(<<>>)

\* C17: a cache that is present and holds the empty collection is a cached
\* value: the count includes the clique and goes on to its children,
\* deleteCachedShortcuts clears it and the caches connected to it below, and
\* a request is a hit that returns the empty collection without elimination.
C17_CachedEmpty ==
  /\ (op.name = "numCachedSeparatorMarginals" /\ CachedEmpty(op.c)) =>
       /\ op.num >= 1
       /\ op.num = 1 + SumConnected(Range(children[op.c]), pre)
  /\ (IsDelete /\ CachedEmpty(op.c)) =>
       \A d \in Cliques :
         cache[d] = IF d \in Connected(op.c, pre) THEN NoCache ELSE pre[d]
  /\ (IsRequest /\ CachedEmpty(op.c)) =>
       (op.st = "ok" /\ op.val = <<>> /\ op.elims = 0 /\ cache = pre)

\* A count at a clique whose cache is present and empty, with a child whose
\* cache is present, so that the count went below the clique.
C17_Witness ==
  /\ op.name = "numCachedSeparatorMarginals"
  /\ CachedEmpty(op.c)
  /\ parent[op.c] # NoParent
  /\ op.num >= 2

C18_Transitions ==
  \A c \in Cliques :
    cache[c] # pre[c] =>
      \/ /\ ~pre[c].present /\ cache[c].present
         /\ op.name \in {"separatorMarginal", "marginal2"}
      \/ /\ pre[c].present /\ ~cache[c].present
         /\ IsDelete

C18_Step ==
  /\ UNCHANGED <<parent, children, conditional>>
  /\ op'.name \in {"treeSize", "numCachedSeparatorMarginals", "equals"} =>
       cache' = cache

\* C18: over any sequence of the six operations the parent references, the
\* child lists and the conditionals never change; treeSize,
\* numCachedSeparatorMarginals and equals change no cache; a cache goes from
\* absent to present only in a request or marginal2 and from present only
\* to absent, in deleteCachedShortcuts.
C18_Lifecycle == [](C18_Transitions) /\ [][C18_Step]_vars

\* The cliques whose separator marginal the last request computed by an
\* elimination.
Eliminated ==
  { d \in Cliques : ~pre[d].present /\ cache[d].present /\ d # op.r }

\* The renumbering of the join at clique d is one-to-one between the keys
\* of the join and 0 .. n-1, and undoing it gives back the factors as they
\* were.
Bijective(d) ==
  LET p_Cp == JoinParent(d, cache[parent[d]].factors)
      ks == keysOf(p_Cp)
      reduction == createReducingPermutation(ks)
      inverseReduction == CreateAsInverse(reduction)
  IN  /\ DOMAIN inverseReduction = ks
      /\ { inverseReduction[k] : k \in ks } = 0 .. (Cardinality(ks) - 1)
      /\ \A k \in ks : reduction[inverseReduction[k] + 1] = k
      /\ UndoReduce(Reduce(p_Cp), p_Cp) = p_Cp

Depth(c) == Cardinality(Ancestors(c))

\* The cliques a traversal from c visits, in order: treeSize goes below every
\* clique (always), the count and deleteCachedShortcuts below a clique whose
\* cache is present.
RECURSIVE Visits(_, _, _)
RECURSIVE VisitsIn(_, _, _)
VisitsIn(cs, cch, always) ==
  IF cs = <<>> THEN <<>>
  ELSE Visits(Head(cs), cch, always) \o VisitsIn(Tail(cs), cch, always)

Visits(c, cch, always) ==
  <<c>> \o (IF always \/ cch[c].present
            THEN VisitsIn(children[c], cch, always)
            ELSE <<>>)

OncePerClique(vs, c) ==
  /\ Range(vs) \subseteq SubtreeOf(c)
  /\ Cardinality(Range(vs)) = Len(vs)

\* C20: every operation terminates. A request returns a result or an error
\* after at most Depth(C) + 1 nested calls, also when R is not an ancestor
\* of C; deleteCachedShortcuts, treeSize and numCachedSeparatorMarginals
\* visit each clique of the subtree at most once.
C20_Terminates ==
  /\ IsRequest =>
       (op.st \in {"ok", "error"} /\ op.calls <= Depth(op.c) + 1)
  /\ op.name = "treeSize" => OncePerClique(Visits(op.c, pre, TRUE), op.c)
  /\ op.name \in {"numCachedSeparatorMarginals", "deleteCachedShortcuts"} =>
       OncePerClique(Visits(op.c, pre, FALSE), op.c)

\* The cliques of the subtree rooted at c whose cache is present.
PresentBelow(c) == { d \in SubtreeOf(c) : cache[d].present }

\* C21: in every state reached by requests and deleteCachedShortcuts calls
\* from an all-absent tree, numCachedSeparatorMarginals(C) is the number of
\* cliques of the subtree rooted at C whose cache is present, for every C.
C21_ExactCount ==
  \A c \in Cliques :
    numCachedSeparatorMarginals(c, cache) = Cardinality(PresentBelow(c))

\* C22: deleteCachedShortcuts(C) leaves the cache of every clique outside
\* the subtree rooted at C (ancestors, siblings and their descendants) with
\* the presence and value it had before the call.
C22_ConfinedToSubtree ==
  IsDelete => \A d \in Cliques \ SubtreeOf(op.c) : cache[d] = pre[d]

\* A deleteCachedShortcuts that cleared a clique below the tree root while
\* its parent and a clique under a sibling held non-empty caches.
C22_Witness ==
  /\ IsDelete
  /\ pre[op.c].present /\ ~cache[op.c].present
  /\ parent[op.c] # NoParent
  /\ pre[parent[op.c]].present /\ pre[parent[op.c]].factors # <<>>
  /\ \E d \in Cliques \ (SubtreeOf(op.c) \cup Ancestors(op.c)) :
       pre[d].present /\ pre[d].factors # <<>> /\ cache[d] = pre[d]

====
